---------------------------- MODULE Spec2Model ----------------------------
(***************************************************************************)
(* Rock-skipping simulation: the Water disturbance queue and ping-pong     *)
(* step (src/unnamed/part_003), the Rock rigid body (src/src/objects/      *)
(* rock.js, lines 62-470), the RockThrowController pool (src/unnamed/      *)
(* part_010), its UI bindings (src/unnamed/part_008) and the animation     *)
(* loop (src/src/main.js, lines 163-383).                                  *)
(*                                                                         *)
(* Numbers.  The program computes in IEEE doubles; the model computes in   *)
(* fixed point, rounding every quotient to the nearest unit (RDiv):        *)
(*   lengths            cm          (0.5 m  = 50)                          *)
(*   velocities         cm/s        (10 m/s = 1000)                        *)
(*   angular velocity   mrad/s, orientation mrad                           *)
(*   mass               g           (0.1 kg = 100)                         *)
(*   delta times        1/60 s      (1/30 s = 2)                           *)
(*   wall clock         ms                                                 *)
(*   uv coordinates     1/1000      (0.5    = 500)                         *)
(*   elasticity         1/100       (0.9    = 90)                          *)
(*   disturbance amount 1/10000     (0.2    = 2000)                        *)
(*   uDisturbanceAmount 1/1000      (1      = 1000)                        *)
(* Comparisons the code makes on reals (speed against a threshold, angle   *)
(* against a threshold) are made exactly on these rationals.               *)
(***************************************************************************)
EXTENDS Integers, Sequences, FiniteSets, TLC

VARIABLES
    water,        \* the Water object (part_003): queue, uniforms, render targets
    rocks,        \* every Rock ever constructed, by identity 1..Len(rocks)
    rockPool,     \* RockThrowController.rockPool: sequence of Rock identities
    activeRocks,  \* RockThrowController.activeRocks: sequence of Rock identities
    rockOptions,  \* RockThrowController.rockOptions
    hasWaterRef,  \* whether options.water was supplied to the controller
    now,          \* Date.now(), ms
    last          \* history: the operation that produced this state and what it observed

vars == <<water, rocks, rockPool, activeRocks, rockOptions, hasWaterRef, now, last>>

-----------------------------------------------------------------------------
(* Arithmetic helpers                                                      *)

Abs(a) == IF a < 0 THEN -a ELSE a

Min(a, b) == IF a <= b THEN a ELSE b

Max(a, b) == IF a >= b THEN a ELSE b

\* a / b rounded to the nearest integer, halves away from zero (b > 0)
RDiv(a, b) == IF a >= 0 THEN (2 * a + b) \div (2 * b) ELSE -((2 * (-a) + b) \div (2 * b))

\* the element of a one-element set
The(S) == CHOOSE x \in S : TRUE

RECURSIVE ISqrtIn(_, _, _)
ISqrtIn(n, lo, hi) ==
    IF lo >= hi THEN lo
    ELSE The({ IF mid * mid <= n THEN ISqrtIn(n, mid, hi) ELSE ISqrtIn(n, lo, mid - 1) :
                 mid \in {(lo + hi + 1) \div 2} })

\* floor of the square root of n, 0 <= n < 2^30
ISqrt(n) == The({ISqrtIn(m, 0, 32767) : m \in {n}})

Vec(x, y, z) == [x |-> x, y |-> y, z |-> z]

Zero3 == Vec(0, 0, 0)

LengthSq(v) == v.x * v.x + v.y * v.y + v.z * v.z

Length(v) == ISqrt(LengthSq(v))

RECURSIVE IndexOfFrom(_, _, _)
IndexOfFrom(s, e, i) ==
    IF i > Len(s) THEN 0 ELSE IF s[i] = e THEN i ELSE IndexOfFrom(s, e, i + 1)

\* Array.prototype.indexOf, 1-based, 0 for "not found" (-1 in the code)
IndexOf(s, e) == IndexOfFrom(s, e, 1)

\* Array.prototype.splice(index, 1)
Splice1(s, i) == SubSeq(s, 1, i - 1) \o SubSeq(s, i + 1, Len(s))

Range(s) == {s[i] : i \in 1..Len(s)}

-----------------------------------------------------------------------------
(* Bounds of the model                                                     *)

\* disturbances ever enqueued in one behaviour
MaxDisturbances == 3

\* Rocks the controller constructs beyond its initial pool
MaxExtraRocks == 1

\* options.rockPoolSize handed to the controller's constructor
RockPoolSize == 1

\* advances of the wall clock in one behaviour
MaxClockSteps == 1

-----------------------------------------------------------------------------
(* Water (src/unnamed/part_003)                                            *)

\* waterPlaneSize of main.js (line 173), handed to Water and to the controller
PlaneSize == [width |-> 200, height |-> 1000]

Buffers == {"A", "B"}

\* Water.constructor: renderTarget1/2, simulationMaterial.uniforms,
\* disturbanceQueue, material.uniforms.uHeightMap, causticsMaterial.uniforms.
\* texture[b] stands for the contents of render target b: the disturbances
\* (by identity) that have been injected into the field it holds.
\* nextId is history: the identity the next enqueued entry receives.
WaterInit ==
    [ renderTarget1 |-> "A",
      renderTarget2 |-> "B",
      texture |-> [b \in Buffers |-> << >>],
      tPrev |-> "A",
      uDelta |-> 0,
      uViscosity |-> 100,
      uAspect |-> <<PlaneSize.width, PlaneSize.height>>,
      uApplyDisturbance |-> FALSE,
      uDisturbancePos |-> <<0, 0>>,
      uDisturbanceAmount |-> 1000,
      uDisturbanceIntensity |-> 10000,
      disturbanceQueue |-> << >>,
      uHeightMap |-> "B",
      causticsHeightMap |-> "none",
      nextId |-> 1 ]

\* a clamp without the upper limit
ClampUvNoUpper(c) == Max(0, c)

\* Math.max(0.0, Math.min(1.0, c))
ClampUv(c) == Max(0, Min(1000, c))

\* Water.addDisturbance(uvPosition, amount); raw and id are history fields
AddDisturbance(w, uv, amount) ==
    [w EXCEPT
        !.disturbanceQueue = Append(@,
            [ position |-> <<ClampUv(uv[1]), ClampUv(uv[2])>>,
              amount |-> amount,
              raw |-> uv,
              id |-> w.nextId ]),
        !.nextId = @ + 1]

\* other ways of taking an entry: the newest one; the oldest, dropping the
\* one behind it; the oldest, leaving it queued
TakeLast(q) == [entry |-> q[Len(q)], rest |-> SubSeq(q, 1, Len(q) - 1)]

TakeTwo(q) == [entry |-> Head(q), rest |-> IF Len(q) > 1 THEN Tail(Tail(q)) ELSE Tail(q)]

TakePeek(q) == [entry |-> Head(q), rest |-> q]

\* the entry a step takes from disturbanceQueue: Array.prototype.shift
Take(q) == [entry |-> Head(q), rest |-> Tail(q)]

\* a simulate that leaves out the swap of the render targets
SimulatePassNoSwap(w, renderer, deltaTime) ==
    LET q == w.disturbanceQueue
        has == Len(q) > 0
        t == IF has THEN Take(q) ELSE [entry |-> << >>, rest |-> q]
        read == w.renderTarget1
        written == w.renderTarget2
        pass == IF has THEN Append(w.texture[read], t.entry.id) ELSE w.texture[read]
    IN  [w EXCEPT
            !.tPrev = read,
            !.uDelta = Min(deltaTime, 1) * 8,
            !.disturbanceQueue = t.rest,
            !.uApplyDisturbance = has,
            !.uDisturbancePos = IF has THEN t.entry.position ELSE @,
            !.uDisturbanceIntensity = IF has THEN t.entry.amount ELSE @,
            !.texture = [@ EXCEPT ![written] = pass],
            !.uHeightMap = written]

\* Water.simulate(renderer, deltaTime).  The render pass writes into
\* renderTarget2 the field read through tPrev, with the disturbance of the
\* uniforms added when uApplyDisturbance is set.
SimulatePass(w, renderer, deltaTime) ==
    LET q == w.disturbanceQueue
        has == Len(q) > 0
        t == IF has THEN Take(q) ELSE [entry |-> << >>, rest |-> q]
        read == w.renderTarget1
        written == w.renderTarget2
        pass == IF has THEN Append(w.texture[read], t.entry.id) ELSE w.texture[read]
    IN  [w EXCEPT
            !.tPrev = read,
            !.uDelta = Min(deltaTime, 1) * 8,
            !.disturbanceQueue = t.rest,
            !.uApplyDisturbance = has,
            !.uDisturbancePos = IF has THEN t.entry.position ELSE @,
            !.uDisturbanceIntensity = IF has THEN t.entry.amount ELSE @,
            !.texture = [@ EXCEPT ![written] = pass],
            !.renderTarget1 = written,
            !.renderTarget2 = read,
            !.uHeightMap = read]

Simulate(w, renderer, deltaTime) ==
    IF ~renderer THEN w ELSE SimulatePass(w, renderer, deltaTime)

\* Water.renderCaustics(renderer)
RenderCaustics(w, renderer) ==
    IF ~renderer THEN w ELSE [w EXCEPT !.causticsHeightMap = w.renderTarget2]

-----------------------------------------------------------------------------
(* Rock (src/src/objects/rock.js, lines 62-470)                            *)

\* this.gravity.y, cm/s^2
Gravity == -980

\* a || b on numbers: 0 is falsy
OrDefault(v, d) == IF v = 0 THEN d ELSE v

\* sin^2 of the skip angle threshold (degrees), in 1/200; 17 degrees is
\* 0.08548 and is taken as 17/200.  The thresholds the model's UI offers.
SinSq200(deg) ==
    CASE deg = 0 -> 0
      [] deg = 17 -> 17
      [] deg = 30 -> 50
      [] deg = 45 -> 100
      [] deg = 60 -> 150
      [] deg = 90 -> 200

\* Rock.constructor(options): this.options and the physics properties
NewRock(opts, planeSize) ==
    [ options |->
        [ radius |-> 5,
          mass |-> OrDefault(opts.mass, 100),
          dragCoefficient |-> 20,
          elasticity |-> OrDefault(opts.elasticity, 90),
          minSkipVelocity |-> OrDefault(opts.minSkipVelocity, 40),
          waterPlaneSize |-> planeSize,
          skipsBeforeSink |-> OrDefault(opts.skipsBeforeSink, 6),
          skipAngleThreshold |-> OrDefault(opts.skipAngleThreshold, 17),
          floorDepth |-> OrDefault(opts.floorDepth, -50) ],
      velocity |-> Zero3,
      position |-> Zero3,
      rotation |-> Zero3,
      angularVelocity |-> Zero3,
      isActive |-> FALSE,
      skipCount |-> 0,
      hasSunk |-> FALSE,
      lastCollisionPoint |-> << >>,
      startTime |-> 0 ]

\* Object.assign(rock.options, this.rockOptions): the keys of rockOptions
\* that Rock reads overwrite the rock's own
AssignOptions(r, opts) ==
    [r EXCEPT
        !.options.skipAngleThreshold = opts.skipAngleThreshold,
        !.options.minSkipVelocity = opts.minSkipVelocity,
        !.options.elasticity = opts.elasticity,
        !.options.skipsBeforeSink = opts.skipsBeforeSink,
        !.options.floorDepth = opts.floorDepth,
        !.options.mass = opts.mass]

\* Rock.setPosition(x, y, z)
SetPosition(r, p) == [r EXCEPT !.position = p]

\* Rock.setVelocity(vx, vy, vz)
SetVelocity(r, v, nowMs) ==
    [r EXCEPT
        !.velocity = v,
        !.angularVelocity = Vec(RDiv(v.x, 10), 6 * v.y, RDiv(v.z, 10)),
        !.isActive = TRUE,
        !.hasSunk = FALSE,
        !.skipCount = 0,
        !.startTime = nowMs]

\* Rock.reset()
Reset(r) ==
    [r EXCEPT
        !.velocity = Zero3,
        !.angularVelocity = Zero3,
        !.position = Zero3,
        !.rotation = Zero3,
        !.isActive = FALSE,
        !.hasSunk = FALSE,
        !.skipCount = 0,
        !.lastCollisionPoint = << >>,
        !.startTime = 0]

\* Rock.isFinished(): the body is "return false"
IsFinished(r) == FALSE

\* checkBoundaries() without the timeout
CheckBoundariesNoTimeout(r, nowMs) ==
    LET halfWidth2 == r.options.waterPlaneSize.width
        halfHeight2 == r.options.waterPlaneSize.height
        out == \/ 2 * r.position.x < -halfWidth2
               \/ 2 * r.position.x > halfWidth2
               \/ 2 * r.position.z < -halfHeight2
               \/ 2 * r.position.z > halfHeight2
               \/ r.position.y < r.options.floorDepth + 10
    IN  IF out THEN [r EXCEPT !.isActive = FALSE] ELSE r

\* Rock.checkBoundaries()
CheckBoundaries(r, nowMs) ==
    LET halfWidth2 == r.options.waterPlaneSize.width
        halfHeight2 == r.options.waterPlaneSize.height
        \* x < -width/2 compared as 2x < -width
        out == \/ 2 * r.position.x < -halfWidth2
               \/ 2 * r.position.x > halfWidth2
               \/ 2 * r.position.z < -halfHeight2
               \/ 2 * r.position.z > halfHeight2
               \/ r.position.y < r.options.floorDepth + 10
               \/ nowMs - r.startTime > 3000
    IN  IF out THEN [r EXCEPT !.isActive = FALSE] ELSE r

\* the surface crossing test of checkWaterCollision (line 319)
Crossed(prevPosition, position, waterHeight) ==
    prevPosition.y >= waterHeight /\ position.y < waterHeight

\* prevPosition.clone().lerp(this.position, t), t = (waterHeight - prev.y) / (y - prev.y)
CollisionPoint(prevPosition, position, waterHeight) ==
    LET num == prevPosition.y - waterHeight
        den == prevPosition.y - position.y
    IN  Vec(prevPosition.x + RDiv((position.x - prevPosition.x) * num, den),
            prevPosition.y - RDiv(den * num, den),
            prevPosition.z + RDiv((position.z - prevPosition.z) * num, den))

\* the angle test with <= in place of <
AngleBelowOrAt(v, deg) == v.y * v.y * 200 <= SinSq200(deg) * LengthSq(v)

\* angleOfIncidence < (PI / 180) * skipAngleThreshold, where
\* angleOfIncidence = |PI/2 - acos(v.y / |v|)| = asin(|v.y| / |v|): both sides
\* lie in [0, PI/2], where sin^2 is increasing, so the test is
\* v.y^2 / |v|^2 < sin^2(threshold)
AngleBelow(v, deg) == v.y * v.y * 200 < SinSq200(deg) * LengthSq(v)

\* impactVelocity > minSkipVelocity * Math.sqrt(mass / 0.1), both sides squared
SpeedAbove(v, minSkipVelocity, mass) ==
    LengthSq(v) * 100 > minSkipVelocity * minSkipVelocity * mass

\* the condition of the if at lines 350-354
SkipCondition(r) ==
    /\ AngleBelow(r.velocity, r.options.skipAngleThreshold)
    /\ SpeedAbove(r.velocity, r.options.minSkipVelocity, r.options.mass)
    /\ r.skipCount < r.options.skipsBeforeSink

\* impactVelocity^2.5 in 1/100, s = |v| in cm/s
Pow25(s) == (((s * s) \div 100) * ISqrt(100 * s)) \div 100

\* disturbanceIntensity = 0.001 + impactVelocity^2.5 * radius^2 * (mass / 0.1),
\* in 1/10000, with radius in cm and mass in g
DisturbanceIntensity(r) ==
    The({ 10 + RDiv(RDiv(Pow25(s) * r.options.radius * r.options.radius, 100)
                      * r.options.mass, 100) :
            s \in {Length(r.velocity)} })

\* the uv without the inversion of Z
CollisionUvNoInvert(r, collisionPoint) ==
    << RDiv(1000 * collisionPoint.x, r.options.waterPlaneSize.width) + 500,
       RDiv(1000 * collisionPoint.z, r.options.waterPlaneSize.height) + 500 >>

\* uvX = x / width + 0.5, uvY = -z / height + 0.5
CollisionUv(r, collisionPoint) ==
    << RDiv(1000 * collisionPoint.x, r.options.waterPlaneSize.width) + 500,
       RDiv(-1000 * collisionPoint.z, r.options.waterPlaneSize.height) + 500 >>

\* a splash that is twice as large when the rock sinks
SplashLargerOnSink(r, collisionPoint, hasWater, w) ==
    IF hasWater
    THEN AddDisturbance(w, CollisionUv(r, collisionPoint),
                        (IF SkipCondition(r) THEN 1 ELSE 2)
                          * RDiv(w.uDisturbanceAmount * DisturbanceIntensity(r), 1000))
    ELSE w

\* water.addDisturbance(uv, uDisturbanceAmount.value * disturbanceIntensity),
\* under "if (water)"
Splash(r, collisionPoint, hasWater, w) ==
    IF hasWater
    THEN AddDisturbance(w, CollisionUv(r, collisionPoint),
                        RDiv(w.uDisturbanceAmount * DisturbanceIntensity(r), 1000))
    ELSE w

\* the skip branch with the bounce taken from the skipCount before the
\* increment
SkipBounceOldCount(r, spin) ==
    LET n == r.skipCount + 1
        den == 100 * r.options.skipsBeforeSink
    IN  [r EXCEPT
            !.skipCount = n,
            !.velocity = Vec(RDiv(r.velocity.x * 95, 100),
                             RDiv(-r.velocity.y * r.options.elasticity
                                    * (r.options.skipsBeforeSink - r.skipCount), den),
                             RDiv(r.velocity.z * 95, 100)),
            !.angularVelocity = spin]

\* the skip branch, lines 355-396
SkipBounce(r, spin) ==
    LET n == r.skipCount + 1
        den == 100 * r.options.skipsBeforeSink
    IN  [r EXCEPT
            !.skipCount = n,
            !.velocity = Vec(RDiv(r.velocity.x * 95, 100),
                             RDiv(-r.velocity.y * r.options.elasticity
                                    * (r.options.skipsBeforeSink - n), den),
                             RDiv(r.velocity.z * 95, 100)),
            !.angularVelocity = spin]

\* the sink branch, lines 397-439
Sink(r, collisionPoint) ==
    LET v3 == Vec(RDiv(r.velocity.x * 3, 10), RDiv(r.velocity.y * 3, 10),
                  RDiv(r.velocity.z * 3, 10))
    IN  [r EXCEPT
            !.hasSunk = TRUE,
            !.position = collisionPoint,
            !.velocity = Vec(v3.x, -Max(20, RDiv(Abs(v3.y) * 3, 10)), v3.z),
            !.angularVelocity = Vec(RDiv(@.x, 2), RDiv(@.y, 2), RDiv(@.z, 2))]

\* lines 322-439: the rock has crossed the surface at r.lastCollisionPoint;
\* it skips or sinks, and the water gets the splash
Impact(r, hasWater, w, spin) ==
    [ rock |-> IF SkipCondition(r) THEN SkipBounce(r, spin) ELSE Sink(r, r.lastCollisionPoint),
      water |-> Splash(r, r.lastCollisionPoint, hasWater, w),
      crossed |-> TRUE,
      skipped |-> SkipCondition(r) ]

\* Rock.checkWaterCollision(prevPosition, waterHeight, water, deltaTime):
\* the rock and the water after it, and what it did
CheckWaterCollision(r, prevPosition, waterHeight, hasWater, w, spin) ==
    IF ~Crossed(prevPosition, r.position, waterHeight)
    THEN [rock |-> r, water |-> w, crossed |-> FALSE, skipped |-> FALSE]
    ELSE The({ Impact(r1, hasWater, w, spin) :
                 r1 \in { [r EXCEPT !.lastCollisionPoint =
                            CollisionPoint(prevPosition, r.position, waterHeight)] } })

\* velocity.add(gravity * factor * dt): num / den is the change of v.y, cm/s
Accelerate(v, num, den) == Vec(v.x, v.y + RDiv(num, den), v.z)

\* velocity.add(velocity * -(num / den))
Damp(v, num, den) ==
    Vec(v.x - RDiv(v.x * num, den), v.y - RDiv(v.y * num, den), v.z - RDiv(v.z * num, den))

\* lines 242-246: air drag along -v, |drag| = 0.1 * dragCoefficient * |v|^2 * dt / mass
AirDrag(v, k, den) == The({Damp(v, s * k, den) : s \in {Length(v)}})

\* lines 239-246: gravity, then air drag
FlyingVelocity(r, dt) ==
    AirDrag(Accelerate(r.velocity, Gravity * dt, 60),
            r.options.dragCoefficient * dt, 60 * 100 * r.options.mass)

\* lines 273-275: a nearly still sunk rock is pushed down
ForcedDescent(v, dt) ==
    IF LengthSq(v) < 100 THEN Vec(v.x, v.y - RDiv(2 * dt, 60), v.z) ELSE v

\* a sunk rock that comes back up
SinkingRockFloats(r, dt) ==
    [r EXCEPT !.hasSunk = FALSE, !.velocity = Vec(@.x, -@.y, @.z)]

\* lines 256-278: reduced gravity (0.3 g), water drag (0.8 per second), the
\* forced descent of a nearly still rock, angular drag.  The random sway of
\* lines 268-270 is at most 0.0005 m/s, below the velocity unit: it rounds to 0.
SinkingRock(r, dt) ==
    [r EXCEPT
        !.velocity = ForcedDescent(Damp(Accelerate(@, Gravity * 3 * dt, 600), 8 * dt, 600), dt),
        !.angularVelocity = Vec(RDiv(@.x * 9, 10), RDiv(@.y * 9, 10), RDiv(@.z * 9, 10))]

\* lines 250-254 and 289-293: rest on the floor
Settle(r) ==
    [r EXCEPT
        !.position.y = r.options.floorDepth,
        !.velocity = Zero3,
        !.angularVelocity = Zero3]

\* lines 239-280: the forces on a flying rock, or on a sunk one
ApplyForces(r, dt) ==
    IF ~r.hasSunk
    THEN [r EXCEPT !.velocity = FlyingVelocity(r, dt)]
    ELSE IF r.position.y <= r.options.floorDepth
         THEN Settle(r)
         ELSE SinkingRock(r, dt)

\* lines 283-285: position.add(velocity * dt) unless the rock is still
Move(r, dt) ==
    IF LengthSq(r.velocity) > 0
    THEN [r EXCEPT !.position =
            Vec(@.x + RDiv(r.velocity.x * dt, 60), @.y + RDiv(r.velocity.y * dt, 60),
                @.z + RDiv(r.velocity.z * dt, 60))]
    ELSE r

\* lines 288-294: a sunk rock that went below the floor rests on it
ClampToFloor(r) ==
    IF r.hasSunk /\ r.position.y < r.options.floorDepth THEN Settle(r) ELSE r

\* lines 297-302: rotation += angularVelocity * dt above the threshold
Rotate(r, dt) ==
    IF LengthSq(r.angularVelocity) > 1000
    THEN [r EXCEPT !.rotation =
            Vec(@.x + RDiv(r.angularVelocity.x * dt, 60),
                @.y + RDiv(r.angularVelocity.y * dt, 60),
                @.z + RDiv(r.angularVelocity.z * dt, 60))]
    ELSE r

\* the integration in two sub-steps of half the clamped deltaTime each
IntegrateTwoSubSteps(r, deltaTime) ==
    The({ Rotate(ClampToFloor(Move(ApplyForces(half, Min(deltaTime, 2) \div 2),
                                   Min(deltaTime, 2) \div 2)),
                 Min(deltaTime, 2)) :
            half \in { ClampToFloor(Move(r1, Min(deltaTime, 2) \div 2)) :
                r1 \in {ApplyForces(r, Min(deltaTime, 2) \div 2)} } })

\* lines 236-302: the integration part of Rock.update for an active rock,
\* with fixedDeltaTime = Math.min(deltaTime, 1 / 30)
Integrate(r, deltaTime) ==
    The({ Rotate(r3, Min(deltaTime, 2)) :
            r3 \in { ClampToFloor(r2) :
                r2 \in { Move(r1, Min(deltaTime, 2)) :
                    r1 \in {ApplyForces(r, Min(deltaTime, 2))} } } })

\* lines 309-311: checkWaterCollision only if the rock has not sunk
WaterCheck(r, prevPosition, waterHeight, hasWater, w, spin) ==
    IF ~r.hasSunk
    THEN CheckWaterCollision(r, prevPosition, waterHeight, hasWater, w, spin)
    ELSE [rock |-> r, water |-> w, crossed |-> FALSE, skipped |-> FALSE]

\* line 314: this.checkBoundaries()
Bounded(c, nowMs) == [c EXCEPT !.rock = CheckBoundaries(@, nowMs)]

\* a sink that enqueues its splash a second time
SplashAgain(c, hasWater) ==
    IF c.crossed /\ ~c.skipped
    THEN [c EXCEPT !.water = Splash(c.rock, c.rock.position, hasWater, @)]
    ELSE c

\* an update whose sink path enqueues its splash twice
RockUpdateTwoSplashes(r, deltaTime, waterHeight, hasWater, w, nowMs, spin) ==
    IF ~r.isActive
    THEN [rock |-> r, water |-> w, crossed |-> FALSE, skipped |-> FALSE]
    ELSE The({ Bounded(SplashAgain(WaterCheck(moved, r.position, waterHeight,
                                              hasWater, w, spin), hasWater), nowMs) :
                 moved \in {Integrate(r, deltaTime)} })

\* Rock.update(deltaTime, waterHeight, water): the rock and the water after
\* it; crossed and skipped tell what checkWaterCollision did
RockUpdate(r, deltaTime, waterHeight, hasWater, w, nowMs, spin) ==
    IF ~r.isActive
    THEN [rock |-> r, water |-> w, crossed |-> FALSE, skipped |-> FALSE]
    ELSE The({ Bounded(WaterCheck(moved, r.position, waterHeight, hasWater, w, spin), nowMs) :
                 moved \in {Integrate(r, deltaTime)} })

-----------------------------------------------------------------------------
(* RockThrowController (src/unnamed/part_010)                              *)

\* this.throwPosition
ThrowPosition == Vec(0, 50, -(PlaneSize.height \div 2))

\* this.rockOptions as the constructor builds it from its options
\* argument; an option that is absent is 0 here, falsy as undefined is
RockOptions(options) ==
    [ skipAngleThreshold |-> OrDefault(options.skipAngleThreshold, 17),
      minSkipVelocity |-> OrDefault(options.minSkipVelocity, 40),
      elasticity |-> OrDefault(options.elasticity, 90),
      skipsBeforeSink |-> OrDefault(options.skipsBeforeSink, 6),
      throwVelocity |-> OrDefault(options.throwVelocity, 1200),
      floorDepth |-> OrDefault(options.floorDepth, -50),
      mass |-> OrDefault(options.mass, 100) ]

\* calculateVelocityForTarget(direction, distance), direction = delta / distance
CalculateVelocityForTarget(delta, distance, throwVelocity) ==
    LET \* min(distance / maxDistance, 1) * (maxVelocity - minVelocity)
        extra == RDiv(RDiv(Min(distance, 1500) * distance, 100) * throwVelocity, 1500)
        scaleVelocity == throwVelocity + extra
    IN  Vec(RDiv(delta.x * scaleVelocity, distance),
            RDiv(delta.y * scaleVelocity, distance) + Min(50 + RDiv(15 * distance, 100), 300),
            RDiv(delta.z * scaleVelocity, distance))

\* the test of throwRock without the bounds
TargetAcceptedAnywhere(didIntersect, target) == didIntersect

\* the bounds test of throwRock, lines 319-324
TargetAccepted(didIntersect, target) ==
    /\ didIntersect
    /\ 2 * target.x >= -PlaneSize.width
    /\ 2 * target.x <= PlaneSize.width
    /\ 2 * target.z >= -PlaneSize.height
    /\ 2 * target.z <= PlaneSize.height

\* the controller's part of the state, as a record the operations map
Ctl == [rocks |-> rocks, rockPool |-> rockPool, activeRocks |-> activeRocks]

\* getRockFromPool() reading the pooled rock without removing it
GetRockFromPoolNoPop(c, opts) ==
    IF Len(c.rockPool) > 0
    THEN [rock |-> c.rockPool[Len(c.rockPool)], ctl |-> c]
    ELSE [rock |-> Len(c.rocks) + 1,
          ctl |-> [c EXCEPT !.rocks = Append(@, NewRock(opts, PlaneSize))]]

\* getRockFromPool(): the identity of the rock, and the heap and pool after
GetRockFromPool(c, opts) ==
    IF Len(c.rockPool) > 0
    THEN [rock |-> c.rockPool[Len(c.rockPool)],
          ctl |-> [c EXCEPT !.rockPool = SubSeq(@, 1, Len(@) - 1)]]
    ELSE [rock |-> Len(c.rocks) + 1,
          ctl |-> [c EXCEPT !.rocks = Append(@, NewRock(opts, PlaneSize))]]

\* returnRockToPool(rock) without rock.reset()
ReturnRockToPoolNoReset(c, id, opts) ==
    LET index == IndexOf(c.activeRocks, id)
    IN  [c EXCEPT
            !.rocks[id] = AssignOptions(@, opts),
            !.rockPool = Append(@, id),
            !.activeRocks = IF index # 0 THEN Splice1(@, index) ELSE @]

\* returnRockToPool(rock)
ReturnRockToPool(c, id, opts) ==
    LET index == IndexOf(c.activeRocks, id)
    IN  [c EXCEPT
            !.rocks[id] = Reset(AssignOptions(@, opts)),
            !.rockPool = Append(@, id),
            !.activeRocks = IF index # 0 THEN Splice1(@, index) ELSE @]

\* throwRock() once the target is accepted, lines 325-356
Launch(c, target, opts, nowMs) ==
    LET g == GetRockFromPool(c, opts)
        delta == Vec(target.x - ThrowPosition.x, target.y - ThrowPosition.y,
                     target.z - ThrowPosition.z)
        v == CalculateVelocityForTarget(delta, Length(delta), opts.throwVelocity)
    IN  [g.ctl EXCEPT
            !.rocks[g.rock] = SetVelocity(SetPosition(@, ThrowPosition), v, nowMs),
            !.activeRocks = Append(@, g.rock)]

\* an update of the options that also resets the rocks it touches
UpdateAllRocksOptionsReset(c, opts) ==
    [c EXCEPT !.rocks =
        [i \in 1..Len(c.rocks) |->
            IF i \in Range(c.rockPool) \cup Range(c.activeRocks)
            THEN Reset(AssignOptions(c.rocks[i], opts))
            ELSE c.rocks[i]]]

\* the body of the two forEach loops of updateAllRocksOptions
UpdateAllRocksOptions(c, opts) ==
    [c EXCEPT !.rocks =
        [i \in 1..Len(c.rocks) |->
            IF i \in Range(c.rockPool) \cup Range(c.activeRocks)
            THEN AssignOptions(c.rocks[i], opts)
            ELSE c.rocks[i]]]

\* what one Rock.update call of the loop did to rock id
Observation(id, before, u, queuedBefore) ==
    [ rock |-> id,
      wasActive |-> before.isActive,
      wasSunk |-> before.hasSunk,
      crossed |-> u.crossed,
      skipped |-> u.skipped,
      enqueued |-> Len(u.water.disturbanceQueue) - queuedBefore ]

\* lines 420-424: a finished rock goes back to the pool
ReturnIfFinished(c, id, opts) ==
    IF IsFinished(c.rocks[id]) THEN ReturnRockToPool(c, id, opts) ELSE c

\* one iteration of the loop, u being what rock.update(...) gave for rock id
\* st: [ctl, water, obs]; obs gets one record per Rock.update call.
Iteration(st, id, u, opts) ==
    [ ctl |-> ReturnIfFinished([st.ctl EXCEPT !.rocks[id] = u.rock], id, opts),
      water |-> u.water,
      obs |-> Append(st.obs, Observation(id, st.ctl.rocks[id], u,
                                         Len(st.water.disturbanceQueue))) ]

\* lines 417-418: rock.update(deltaTime, 0, this.water) on the rock id
UpdateRock(st, id, deltaTime, hasWater, opts, nowMs, spin) ==
    The({ Iteration(st, id, u, opts) :
            u \in { RockUpdate(st.ctl.rocks[id], deltaTime, 0, hasWater, st.water,
                               nowMs, spin) } })

\* the for loop of update(deltaTime), from index i (1-based) down to 1
RECURSIVE UpdateLoop(_, _, _, _, _, _, _)
UpdateLoop(st, i, deltaTime, hasWater, opts, nowMs, spins) ==
    IF i < 1 THEN st
    ELSE The({ UpdateLoop(st2, i - 1, deltaTime, hasWater, opts, nowMs, spins) :
                 st2 \in { UpdateRock(st, st.ctl.activeRocks[i], deltaTime, hasWater, opts,
                                      nowMs, spins[st.ctl.activeRocks[i]]) } })

\* update(deltaTime)
ControllerUpdate(c, w, deltaTime, hasWater, opts, nowMs, spins) ==
    The({ UpdateLoop(st, Len(c.activeRocks), deltaTime, hasWater, opts, nowMs, spins) :
            st \in {[ctl |-> c, water |-> w, obs |-> << >>]} })

\* an if in place of the while: only activeRocks[0] is returned
DisposeLoopOnce(c, opts) ==
    IF Len(c.activeRocks) > 0
    THEN ReturnRockToPool(c, c.activeRocks[1], opts)
    ELSE c

\* the while loop of dispose()
RECURSIVE DisposeLoop(_, _)
DisposeLoop(c, opts) ==
    IF Len(c.activeRocks) > 0
    THEN DisposeLoop(ReturnRockToPool(c, c.activeRocks[1], opts), opts)
    ELSE c

-----------------------------------------------------------------------------
(* Inputs                                                                  *)

\* deltaTime of a frame, 1/60 s: a 30 Hz frame and a stalled one (clamped)
DeltaTimes == {2, 5}

\* the aim ray's intersection with the plane y = 0, cm: one near the
\* thrower and one outside the plane extents
Targets == {Vec(0, 0, -490), Vec(150, 0, 0)}

\* angular velocities "(Math.random() - 0.5) * 10" can give on a skip, mrad/s
Spins == {Vec(0, 0, 0), Vec(4000, -5000, 2500)}

\* values the Rock Physics sliders are moved to (part_008, lines 318-342)
UiChoices == [ skipsBeforeSink : {1, 2} ]

\* uv and amount of direct addDisturbance calls
UvInputs == {<<500, 500>>, <<1500, -300>>, <<0, 1000>>, <<-1, 1001>>, <<250, 750>>}

Amounts == {2000}

\* ms the wall clock advances at a time
ClockStep == 3100

-----------------------------------------------------------------------------
(* The program: construction and handlers                                  *)

NoOp(name) == [op |-> name, rock |-> 0, obs |-> << >>, args |-> << >>]

\* the options main.js constructs the controller with: { throwVelocity: 10.0 }
MainOptions ==
    [ skipAngleThreshold |-> 0, minSkipVelocity |-> 0, elasticity |-> 0,
      skipsBeforeSink |-> 0, throwVelocity |-> 1000, floorDepth |-> 0, mass |-> 0 ]

\* a controller constructed for easy skipping: any impact angle skips,
\* two skips are allowed and a bounce keeps a quarter of the speed
SkipperOptions ==
    [ MainOptions EXCEPT !.skipAngleThreshold = 90, !.elasticity = 50,
                         !.skipsBeforeSink = 2 ]

\* new Water(...), new RockThrowController(options) with initRockPool()
Construct(options) ==
    /\ water = WaterInit
    /\ rocks = [i \in 1..RockPoolSize |-> NewRock(RockOptions(options), PlaneSize)]
    /\ rockPool = [i \in 1..RockPoolSize |-> i]
    /\ activeRocks = << >>
    /\ rockOptions = RockOptions(options)
    /\ now = 0
    /\ last = NoOp("init")

\* main.js: the controller gets the Water object
Init ==
    /\ Construct(MainOptions)
    /\ hasWaterRef = TRUE

\* options.water is stored as given, present or not
InitSkipper ==
    /\ Construct(SkipperOptions)
    /\ hasWaterRef \in BOOLEAN

\* the rocks an update skipped
Skippers(obs) == {obs[k].rock : k \in {j \in 1..Len(obs) : obs[j].skipped}}

\* the spin each rock draws: the given one for a rock that skips
SpinsOf(draw) == [i \in 1..Len(rocks) |-> IF i \in DOMAIN draw THEN draw[i] ELSE Zero3]

\* the state after the frame, u being what update(deltaTime) gave
Frame(u) ==
    /\ u.water.nextId <= MaxDisturbances + 1
    /\ water' = u.water
    /\ rocks' = u.ctl.rocks
    /\ rockPool' = u.ctl.rockPool
    /\ activeRocks' = u.ctl.activeRocks
    /\ last' = [NoOp("animate") EXCEPT !.obs = u.obs]
    /\ UNCHANGED <<rockOptions, hasWaterRef, now>>

\* water.simulate and water.renderCaustics of a frame
FrameWater(deltaTime) == RenderCaustics(Simulate(water, TRUE, deltaTime), TRUE)

\* animate() of main.js: water.simulate, water.renderCaustics, then
\* rockThrowController.update(deltaTime); the rocks that skip in this frame
\* draw a random spin
Animate ==
    \E deltaTime \in DeltaTimes :
        \E w1 \in {FrameWater(deltaTime)} :
            \E draw \in [Skippers(ControllerUpdate(Ctl, w1, deltaTime, hasWaterRef,
                                                   rockOptions, now, SpinsOf(<< >>)).obs)
                            -> Spins] :
                \E u \in {ControllerUpdate(Ctl, w1, deltaTime, hasWaterRef, rockOptions,
                                            now, SpinsOf(draw))} :
                    Frame(u)

\* onKeyDown(space): throwRock() with the aim the mouse gives; args keeps
\* what intersectPlane gave
ThrowRock ==
    \E didIntersect \in BOOLEAN, target \in Targets :
        IF TargetAccepted(didIntersect, target)
        THEN LET c == Launch(Ctl, target, rockOptions, now)
             IN  /\ Len(c.rocks) <= RockPoolSize + MaxExtraRocks
                 /\ rocks' = c.rocks
                 /\ rockPool' = c.rockPool
                 /\ activeRocks' = c.activeRocks
                 /\ last' = [NoOp("throwRock") EXCEPT
                                !.rock = c.activeRocks[Len(c.activeRocks)],
                                !.args = <<didIntersect, target>>]
                 /\ UNCHANGED <<water, rockOptions, hasWaterRef, now>>
        ELSE /\ last' = [NoOp("throwRock") EXCEPT !.args = <<didIntersect, target>>]
             /\ UNCHANGED <<water, rocks, rockPool, activeRocks, rockOptions, hasWaterRef, now>>

\* a Rock Physics slider: the binding writes rockOptions, its change
\* handler calls updateAllRocksOptions()
UiChange ==
    \E ch \in UiChoices :
        LET key == CHOOSE k \in DOMAIN ch : TRUE
            opts == [rockOptions EXCEPT ![key] = ch[key]]
            c == UpdateAllRocksOptions(Ctl, opts)
        IN  /\ opts # rockOptions
            /\ rockOptions' = opts
            /\ rocks' = c.rocks
            /\ last' = NoOp("updateAllRocksOptions")
            /\ UNCHANGED <<water, rockPool, activeRocks, hasWaterRef, now>>

\* dispose()
Dispose ==
    LET c == DisposeLoop(Ctl, rockOptions)
    IN  /\ rocks' = c.rocks
        /\ rockPool' = c.rockPool
        /\ activeRocks' = c.activeRocks
        /\ last' = [NoOp("dispose") EXCEPT !.args = <<activeRocks>>]
        /\ UNCHANGED <<water, rockOptions, hasWaterRef, now>>

\* the wall clock read by Date.now() moves on
ClockAdvance ==
    /\ now < MaxClockSteps * ClockStep
    /\ now' = now + ClockStep
    /\ last' = NoOp("clock")
    /\ UNCHANGED <<water, rocks, rockPool, activeRocks, rockOptions, hasWaterRef>>

Next == Animate \/ ThrowRock \/ UiChange \/ Dispose \/ ClockAdvance

Spec == Init /\ [][Next]_vars

\* the same handlers when the user throws only while a pooled rock is left,
\* from a controller constructed for skipping
ThrowPooled == Len(rockPool) > 0 /\ ThrowRock

NextSkipper == Animate \/ ThrowPooled \/ UiChange \/ Dispose \/ ClockAdvance

SpecSkipper == InitSkipper /\ [][NextSkipper]_vars

\* requestAnimationFrame(animate) at the head of animate(): frames keep coming
SpecSkipperFair == SpecSkipper /\ WF_vars(Animate)

-----------------------------------------------------------------------------
(* Water alone: addDisturbance and simulate called in any interleaving     *)

\* water.addDisturbance(uv, amount), as the pointer handler of main.js
\* (line 149) and Rock.checkWaterCollision call it
AddDisturbanceCall ==
    \E uv \in UvInputs, amount \in Amounts :
        /\ water.nextId <= MaxDisturbances
        /\ water' = AddDisturbance(water, uv, amount)
        /\ last' = [NoOp("addDisturbance") EXCEPT !.args = <<uv, amount>>]
        /\ UNCHANGED <<rocks, rockPool, activeRocks, rockOptions, hasWaterRef, now>>

\* water.simulate(renderer, deltaTime) with the renderer present
SimulateRendered ==
    \E deltaTime \in DeltaTimes :
        /\ water' = Simulate(water, TRUE, deltaTime)
        /\ last' = [NoOp("simulate") EXCEPT !.args = <<TRUE, deltaTime>>]
        /\ UNCHANGED <<rocks, rockPool, activeRocks, rockOptions, hasWaterRef, now>>

\* water.simulate(undefined, deltaTime)
SimulateNoRenderer ==
    \E deltaTime \in DeltaTimes :
        /\ water' = Simulate(water, FALSE, deltaTime)
        /\ last' = [NoOp("simulate") EXCEPT !.args = <<FALSE, deltaTime>>]
        /\ UNCHANGED <<rocks, rockPool, activeRocks, rockOptions, hasWaterRef, now>>

NextWater == AddDisturbanceCall \/ SimulateRendered \/ SimulateNoRenderer

SpecWater == Init /\ [][NextWater]_vars

\* animate() runs on every animation frame and calls
\* water.simulate(renderer, deltaTime) each time (main.js, lines 328-340)
SpecWaterFair == SpecWater /\ WF_vars(SimulateRendered)

-----------------------------------------------------------------------------
(* The wave field: the simulation pass cell by cell                        *)
(* (src/src/shaders/simulation_fragment.glsl).  Heights and velocities are *)
(* in 1/10000, uv in 1/1000.                                               *)

\* uResolution of the grid the shader is run on (main.js: 256)
FieldSize == 3

\* simulate() calls in one behaviour of the field
MaxFieldSteps == 5

Cells == (1..FieldSize) \X (1..FieldSize)

\* a render target's texels as created: height and velocity 0
RestField == [c \in Cells |-> [h |-> 0, v |-> 0]]

\* texture2D(tPrev, texel(offset)): coordinates outside the texture are
\* clamped to the edge texel
Texel(field, i, j) == field[<<Max(1, Min(FieldSize, i)), Max(1, Min(FieldSize, j))>>]

\* vUv at the centre of the texel i of a row or column
CellUv(i) == RDiv((2 * i - 1) * 1000, 2 * FieldSize)

\* uDisturbanceRadius, 1/1000
DisturbanceRadius == 4

\* what smoothstep(radius, 0.0, dist) gives: with edge0 > edge1 the result
\* is undefined in GLSL; "hermite" is the usual formula t * t * (3 - 2 t),
\* t = clamp((x - edge0) / (edge1 - edge0), 0, 1), "zero" a build giving 0
SmoothstepOutcomes == {"hermite", "zero"}

\* smoothstep(radius, 0.0, dist) in 1/1000
Smoothstep(outcome, radius, dist) ==
    IF outcome = "zero" THEN 0
    ELSE The({ RDiv(t * t * (3000 - 2 * t), 1000000) :
                 t \in {Max(0, Min(1000, RDiv((radius - dist) * 1000, radius)))} })

\* the strength without the uDisturbanceAmount factor
StrengthOfEntryOnly(w, uv, outcome) ==
    IF w.uApplyDisturbance
    THEN RDiv(Smoothstep(outcome, DisturbanceRadius,
                         ISqrt((uv[1] - w.uDisturbancePos[1]) * (uv[1] - w.uDisturbancePos[1])
                             + (uv[2] - w.uDisturbancePos[2]) * (uv[2] - w.uDisturbancePos[2])))
                * w.uDisturbanceIntensity, 1000)
    ELSE 0

\* lines 62-70: the strength added to the height of the cell at uv
Strength(w, uv, outcome) ==
    IF w.uApplyDisturbance
    THEN RDiv(RDiv(Smoothstep(outcome, DisturbanceRadius,
                              ISqrt((uv[1] - w.uDisturbancePos[1]) * (uv[1] - w.uDisturbancePos[1])
                                  + (uv[2] - w.uDisturbancePos[2]) * (uv[2] - w.uDisturbancePos[2])))
                     * w.uDisturbanceAmount, 1000)
                * w.uDisturbanceIntensity, 1000)
    ELSE 0

\* lines 32-41: the laplacian at a cell of height h, its x part divided by
\* uAspect^2 = (width / height)^2
Laplacian(h, hl, hr, hd, hu, aspect) ==
    RDiv(RDiv((hl + hr - 2 * h) * aspect[2], aspect[1]) * aspect[2], aspect[1])
        + (hd + hu - 2 * h)

\* damping that takes viscosity * delta off the value
ViscousSubtract(x, viscosity, uDelta) == x - viscosity * uDelta

\* lines 50-51: x *= (1.0 - uViscosity * uDelta); viscosity in 1/1000 and
\* uDelta in 1/60
Viscous(x, viscosity, uDelta) == x - RDiv(x * viscosity * uDelta, 60000)

\* lines 44-51: the new velocity, then the new height from it, both damped
Wave(h, v, laplacian, w) ==
    The({ [ h |-> Viscous(h + RDiv(newVelocity * w.uDelta, 60), w.uViscosity, w.uDelta),
            v |-> Viscous(newVelocity, w.uViscosity, w.uDelta) ] :
            newVelocity \in {v + RDiv(laplacian * w.uDelta, 60)} })

\* main() for the fragment of cell <<i, j>>: gl_FragColor.rg
Fragment(prev, i, j, w, outcome) ==
    The({ [s EXCEPT !.h = @ + Strength(w, <<CellUv(i), CellUv(j)>>, outcome)] :
            s \in { Wave(prev[<<i, j>>].h, prev[<<i, j>>].v,
                         Laplacian(prev[<<i, j>>].h,
                                   Texel(prev, i - 1, j).h, Texel(prev, i + 1, j).h,
                                   Texel(prev, i, j - 1).h, Texel(prev, i, j + 1).h,
                                   w.uAspect),
                         w) } })

\* renderer.render(simulationScene, simulationCamera): every texel of the
\* target from the texture tPrev
RenderField(prev, w, outcome) == [c \in Cells |-> Fragment(prev, c[1], c[2], w, outcome)]

\* Water.simulate(renderer, deltaTime) on a Water whose texture[b] holds the
\* texels of render target b: queue, uniforms and swap as in SimulatePass,
\* the target written by the shader
SimulateCells(w, renderer, deltaTime, outcome) ==
    IF ~renderer THEN w
    ELSE The({ [w2 EXCEPT !.texture =
                    [w.texture EXCEPT ![w.renderTarget2] =
                        RenderField(w.texture[w.renderTarget1], w2, outcome)]] :
                 w2 \in { SimulatePass([w EXCEPT !.texture = [b \in Buffers |-> << >>]],
                                       renderer, deltaTime) } })

\* sum over the cells of height^2
RECURSIVE SumSq(_, _)
SumSq(field, cells) ==
    IF cells = {} THEN 0
    ELSE The({ field[c].h * field[c].h + SumSq(field, cells \ {c}) :
                 c \in {CHOOSE c \in cells : TRUE} })

FieldEnergy(field) == SumSq(field, Cells)

\* viscosities the Viscosity slider gives (0 to 0.1), 1/1000
Viscosities == {0, 50, 100}

\* planeSize options: that of main.js and the constructor's default
PlaneSizes == {<<200, 1000>>, <<200, 200>>}

\* deltaTime of a frame, 1/60 s: no time passed, a 60 Hz and a 30 Hz frame
FieldDeltaTimes == {0, 1, 2}

\* uv of clicks on the field: the centre and a corner texel
FieldUvs == {<<500, 500>>, <<167, 167>>}

\* new Water(options) with both render targets at rest
InitField ==
    /\ \E viscosity \in Viscosities, size \in PlaneSizes :
          water = [WaterInit EXCEPT !.texture = [b \in Buffers |-> RestField],
                                    !.uViscosity = viscosity,
                                    !.uAspect = size]
    /\ rocks = << >>
    /\ rockPool = << >>
    /\ activeRocks = << >>
    /\ rockOptions = RockOptions(MainOptions)
    /\ hasWaterRef = TRUE
    /\ now = 0
    /\ last = [NoOp("init") EXCEPT !.obs = <<0>>]

\* water.simulate(renderer, deltaTime); obs counts the calls
SimulateField ==
    \E deltaTime \in FieldDeltaTimes, outcome \in SmoothstepOutcomes :
        /\ last.obs[1] < MaxFieldSteps
        /\ water' = SimulateCells(water, TRUE, deltaTime, outcome)
        /\ last' = [NoOp("simulate") EXCEPT !.args = <<TRUE, deltaTime>>,
                                            !.obs = <<last.obs[1] + 1>>]
        /\ UNCHANGED <<rocks, rockPool, activeRocks, rockOptions, hasWaterRef, now>>

\* water.addDisturbance(uv, amount) from a click
DisturbField ==
    \E uv \in FieldUvs, amount \in Amounts :
        /\ water.nextId <= MaxDisturbances
        /\ Len(water.disturbanceQueue) = 0
        /\ water' = AddDisturbance(water, uv, amount)
        /\ last' = [NoOp("addDisturbance") EXCEPT !.args = <<uv, amount>>, !.obs = last.obs]
        /\ UNCHANGED <<rocks, rockPool, activeRocks, rockOptions, hasWaterRef, now>>

NextField == SimulateField \/ DisturbField

SpecField == InitField /\ [][NextField]_vars

-----------------------------------------------------------------------------
(* Rocks over the cell-level field: main.js with a Water whose texels are  *)
(* kept cell by cell                                                       *)

\* animate() frames in one behaviour
MaxPondFrames == 3

\* uv of a click on the water where a rock thrown at (0, 0, -4.9) comes down
PondUvs == {<<500, 990>>, <<500, 833>>}

\* main.js after loading: Water at rest, the controller with its pool;
\* args[1] counts the frames
InitPond ==
    /\ water = [WaterInit EXCEPT !.texture = [b \in Buffers |-> RestField]]
    /\ rocks = [i \in 1..RockPoolSize |-> NewRock(RockOptions(MainOptions), PlaneSize)]
    /\ rockPool = [i \in 1..RockPoolSize |-> i]
    /\ activeRocks = << >>
    /\ rockOptions = RockOptions(MainOptions)
    /\ hasWaterRef = TRUE
    /\ now = 0
    /\ last = [NoOp("init") EXCEPT !.args = <<0, 0>>]

\* the state after a frame of deltaTime, u being what update(deltaTime) gave
PondFrameEnd(u, deltaTime) ==
    /\ u.water.nextId <= MaxDisturbances + 1
    /\ water' = u.water
    /\ rocks' = u.ctl.rocks
    /\ rockPool' = u.ctl.rockPool
    /\ activeRocks' = u.ctl.activeRocks
    /\ last' = [NoOp("animate") EXCEPT !.obs = u.obs, !.args = <<last.args[1] + 1, deltaTime>>]
    /\ UNCHANGED <<rockOptions, hasWaterRef, now>>

\* animate(): water.simulate, water.renderCaustics, then
\* rockThrowController.update(deltaTime)
PondFrame ==
    \E deltaTime \in DeltaTimes, outcome \in SmoothstepOutcomes :
        /\ last.args[1] < MaxPondFrames
        /\ \E w1 \in {RenderCaustics(SimulateCells(water, TRUE, deltaTime, outcome), TRUE)} :
              \E draw \in [Skippers(ControllerUpdate(Ctl, w1, deltaTime, hasWaterRef,
                                                     rockOptions, now, SpinsOf(<< >>)).obs)
                              -> Spins] :
                  \E u \in {ControllerUpdate(Ctl, w1, deltaTime, hasWaterRef, rockOptions,
                                              now, SpinsOf(draw))} :
                      PondFrameEnd(u, deltaTime)

\* onKeyDown(space): throwRock() of a pooled rock at the near target
PondThrow ==
    \E target \in Targets :
        /\ Len(rockPool) > 0
        /\ TargetAccepted(TRUE, target)
        /\ \E c \in {Launch(Ctl, target, rockOptions, now)} :
              /\ rocks' = c.rocks
              /\ rockPool' = c.rockPool
              /\ activeRocks' = c.activeRocks
              /\ last' = [NoOp("throwRock") EXCEPT !.rock = c.activeRocks[Len(c.activeRocks)],
                                                   !.args = last.args]
        /\ UNCHANGED <<water, rockOptions, hasWaterRef, now>>

\* pointerdown on the water: water.addDisturbance(uv, 0.2)
PondClick ==
    \E uv \in PondUvs, amount \in Amounts :
        /\ water.nextId <= MaxDisturbances
        /\ water' = AddDisturbance(water, uv, amount)
        /\ last' = [NoOp("addDisturbance") EXCEPT !.args = last.args]
        /\ UNCHANGED <<rocks, rockPool, activeRocks, rockOptions, hasWaterRef, now>>

NextPond == PondFrame \/ PondThrow \/ PondClick

SpecPond == InitPond /\ [][NextPond]_vars

-----------------------------------------------------------------------------
(* Rock.checkWaterCollision alone, on rocks in any state of flight         *)

\* velocities at the crossing, cm/s: 45 degrees and 90 degrees of incidence,
\* 0.4 m/s and 0.8 m/s of speed at 36.9 degrees, and a flat fast throw
ImpactVelocities ==
    { Vec(1000, -1000, 0), Vec(0, -500, 0), Vec(32, -24, 0), Vec(64, -48, 0),
      Vec(800, -200, 100) }

\* <<prevPosition, position>> of the update: through the surface, below it,
\* above it, and through the surface outside the plane extents
Paths ==
    { <<Vec(10, 10, -20), Vec(30, -5, -20)>>,
      <<Vec(10, -5, -20), Vec(30, -10, -20)>>,
      <<Vec(10, 20, -20), Vec(30, 10, -20)>>,
      <<Vec(90, 10, -510), Vec(120, -5, -525)>> }

\* a Rock constructed with its own options, then launched and updated up to
\* the call of checkWaterCollision(prevPosition, ...)
InitCollision ==
    /\ \E velocity \in ImpactVelocities, path \in Paths,
          threshold \in {17, 45, 90}, mass \in {100, 400},
          skipCount \in 0..2, skipsBeforeSink \in {2, 5}, elasticity \in {50, 90} :
            LET opts == [MainOptions EXCEPT !.skipAngleThreshold = threshold,
                                            !.mass = mass,
                                            !.skipsBeforeSink = skipsBeforeSink,
                                            !.elasticity = elasticity]
                r == [NewRock(opts, PlaneSize) EXCEPT !.isActive = TRUE,
                                                      !.position = path[2],
                                                      !.velocity = velocity,
                                                      !.skipCount = skipCount]
            IN  /\ rocks = <<r>>
                /\ last = [NoOp("init") EXCEPT !.args = <<path[1]>>]
    /\ water = WaterInit
    /\ rockPool = << >>
    /\ activeRocks = << >>
    /\ rockOptions = RockOptions(MainOptions)
    /\ hasWaterRef \in BOOLEAN
    /\ now = 0

\* rock.checkWaterCollision(prevPosition, 0, water, deltaTime); args keeps
\* the rock as it was at the call, and prevPosition
Collide ==
    \E spin \in Spins :
        LET c == CheckWaterCollision(rocks[1], last.args[1], 0, hasWaterRef, water, spin)
        IN  /\ last.op = "init"
            /\ rocks' = <<c.rock>>
            /\ water' = c.water
            /\ last' = [ op |-> "checkWaterCollision",
                         rock |-> 1,
                         obs |-> <<[crossed |-> c.crossed, skipped |-> c.skipped]>>,
                         args |-> <<rocks[1], last.args[1]>> ]
            /\ UNCHANGED <<rockPool, activeRocks, rockOptions, hasWaterRef, now>>

NextCollision == Collide

SpecCollision == InitCollision /\ [][NextCollision]_vars

-----------------------------------------------------------------------------
(* Properties of the disturbance queue                                     *)

\* C3, as stated: every call of simulate takes exactly one entry off a
\* queue of n >= 1 entries, leaving the other n - 1 in order, and a call on
\* an empty queue leaves uApplyDisturbance false.
C3_EveryCallTakesOne ==
    [][ last'.op = "simulate" =>
            IF Len(water.disturbanceQueue) >= 1
            THEN water'.disturbanceQueue = Tail(water.disturbanceQueue)
            ELSE /\ ~water'.uApplyDisturbance
                 /\ water'.disturbanceQueue = << >> ]_vars

\* C3, amended: a call of simulate with a renderer takes exactly the head
\* off a queue of n >= 1 entries and injects that one entry into the field
\* it writes; on an empty queue it injects nothing and uApplyDisturbance is
\* false.  A call without a renderer returns at once: queue, uniforms and
\* fields are as before.
C3_RenderedCallTakesOne ==
    [][ last'.op = "simulate" =>
            LET q == water.disturbanceQueue
                field == water.texture[water.renderTarget1]
                field2 == water'.texture[water'.renderTarget1]
            IN  IF ~last'.args[1] THEN water' = water
                ELSE IF Len(q) >= 1
                THEN /\ water'.disturbanceQueue = Tail(q)
                     /\ water'.uApplyDisturbance
                     /\ water'.uDisturbancePos = q[1].position
                     /\ field2 = Append(field, q[1].id)
                ELSE /\ water'.disturbanceQueue = << >>
                     /\ ~water'.uApplyDisturbance
                     /\ field2 = field ]_vars

\* a rendered step has just applied one entry and left others queued
C3_Witness ==
    /\ last.op = "simulate"
    /\ last.args[1]
    /\ water.uApplyDisturbance
    /\ Len(water.disturbanceQueue) >= 1

\* C4: disturbances reach the wave field in the order they were enqueued:
\* the entries injected into the latest field, followed by the entries
\* still queued, are the entries 1, 2, ... in the order of their enqueueing.
C4_Fifo ==
    LET field == water.texture[water.renderTarget1]
        q == water.disturbanceQueue
        order == field \o [k \in 1..Len(q) |-> q[k].id]
    IN  order = [k \in 1..(water.nextId - 1) |-> k]

\* two entries have been applied and a later one is waiting
C4_Witness ==
    /\ Len(water.texture[water.renderTarget1]) >= 2
    /\ Len(water.disturbanceQueue) >= 1

\* C5: while simulate keeps being called with a renderer, every enqueued
\* entry is eventually injected into the field; no entry is injected twice;
\* a rendered step injects the head and moves every other entry one place
\* towards the head, and no other step moves a queued entry, so the k-th
\* entry is injected by the k-th rendered step that follows.
C5_EventuallyAppliedOnce ==
    /\ \A id \in 1..MaxDisturbances :
          (water.nextId > id) ~>
              (\E k \in DOMAIN water.texture[water.renderTarget1] :
                    water.texture[water.renderTarget1][k] = id)
    /\ [](\A b \in Buffers : \A i, j \in DOMAIN water.texture[b] :
              water.texture[b][i] = water.texture[b][j] => i = j)
    /\ [][ LET q == water.disturbanceQueue
               q2 == water'.disturbanceQueue
               field2 == water'.texture[water'.renderTarget1]
           IN  IF last'.op = "simulate" /\ last'.args[1] /\ Len(q) >= 1
               THEN /\ field2[Len(field2)] = q[1].id
                    /\ Len(q2) = Len(q) - 1
                    /\ \A k \in 2..Len(q) : q2[k - 1] = q[k]
               ELSE /\ Len(q2) >= Len(q)
                    /\ \A k \in 1..Len(q) : q2[k] = q[k] ]_vars

\* one entry has been applied while two more, enqueued with it, still wait
C5_Witness ==
    /\ last.op = "simulate"
    /\ Len(water.texture[water.renderTarget1]) >= 1
    /\ Len(water.disturbanceQueue) >= 2

\* C6: addDisturbance accepts every uv: the call appends one entry, whose
\* position is the uv given with each component below 0 raised to 0, each
\* above 1 lowered to 1 and each inside [0, 1] kept; (1.5, -0.3) is stored
\* as (1.0, 0.0).  Every queued position lies in [0, 1] x [0, 1].
C6_ClampStored ==
    /\ [](\A k \in DOMAIN water.disturbanceQueue : \A c \in 1..2 :
              LET e == water.disturbanceQueue[k]
              IN  /\ e.position[c] >= 0
                  /\ e.position[c] <= 1000
                  /\ e.raw[c] < 0 => e.position[c] = 0
                  /\ e.raw[c] > 1000 => e.position[c] = 1000
                  /\ (e.raw[c] >= 0 /\ e.raw[c] <= 1000) => e.position[c] = e.raw[c]
                  /\ e.raw = <<1500, -300>> => e.position = <<1000, 0>>)
    /\ [][ last'.op = "addDisturbance" =>
              /\ Len(water'.disturbanceQueue) = Len(water.disturbanceQueue) + 1
              /\ water'.disturbanceQueue[Len(water'.disturbanceQueue)].raw = last'.args[1]
              /\ SubSeq(water'.disturbanceQueue, 1, Len(water.disturbanceQueue))
                    = water.disturbanceQueue ]_vars

\* the out-of-range uv of the example has been stored
C6_Witness ==
    /\ last.op = "addDisturbance"
    /\ last.args[1] = <<1500, -300>>
    /\ water.disturbanceQueue[Len(water.disturbanceQueue)].position = <<1000, 0>>

-----------------------------------------------------------------------------
(* Properties of the rock pool and of the rocks                            *)

\* C1: after every controller operation each Rock created so far (the
\* initial pool and the Rocks getRockFromPool creates on an empty pool) is
\* in exactly one of rockPool and activeRocks, neither list holds a Rock
\* twice, and the two lengths add up to the number of Rocks created.
C1_PoolConservation ==
    /\ \A i \in 1..Len(rocks) :
          (i \in Range(rockPool)) # (i \in Range(activeRocks))
    /\ \A j, k \in 1..Len(rockPool) : rockPool[j] = rockPool[k] => j = k
    /\ \A j, k \in 1..Len(activeRocks) : activeRocks[j] = activeRocks[k] => j = k
    /\ Range(rockPool) \cup Range(activeRocks) \subseteq 1..Len(rocks)
    /\ Len(rockPool) + Len(activeRocks) = Len(rocks)

\* a Rock was created on an empty pool, both went back to the pool, and one
\* of them has been thrown again
C1_Witness ==
    /\ last.op = "throwRock"
    /\ Len(rocks) > RockPoolSize
    /\ Len(rockPool) >= 1
    /\ Len(activeRocks) >= 1

\* C2: a Rock that has sunk is not flying after any update; hasSunk goes
\* back to false only when the Rock is launched again (setVelocity in
\* throwRock) or reset (returnRockToPool, in dispose).
C2_SinkFinality ==
    [][ \A i \in 1..Len(rocks) :
            rocks[i].hasSunk =>
                /\ last'.op = "animate" =>
                      /\ rocks'[i].hasSunk
                      /\ ~(rocks'[i].isActive /\ ~rocks'[i].hasSunk)
                /\ ~rocks'[i].hasSunk =>
                      \/ last'.op = "throwRock" /\ last'.rock = i
                      \/ last'.op = "dispose" ]_vars

\* a frame has updated a Rock that had sunk and was still active
C2_Witness ==
    /\ last.op = "animate"
    /\ \E k \in 1..Len(last.obs) :
          /\ last.obs[k].wasSunk
          /\ last.obs[k].wasActive
          /\ rocks[last.obs[k].rock].hasSunk

\* C7: every Rock has skipCount <= skipsBeforeSink, whatever launches,
\* frames, resets and slider changes have happened.
C7_SkipCountBounded ==
    \A i \in 1..Len(rocks) : rocks[i].skipCount <= rocks[i].options.skipsBeforeSink

\* C8: a crossing is resolved as a skip exactly when the angle of incidence
\* is below the threshold, the speed is above minSkipVelocity * sqrt(mass/0.1)
\* and skipCount is below skipsBeforeSink, each strictly; otherwise, and so
\* when the angle or the speed equals its threshold, the Rock sinks.  The
\* decision depends on nothing else.
C8_SkipDecision ==
    (last.op = "checkWaterCollision") =>
        LET pre == last.args[1]
            prevPosition == last.args[2]
            r == rocks[1]
            v == pre.velocity
            o == pre.options
            speedSq == v.x * v.x + v.y * v.y + v.z * v.z
            angleSide == v.y * v.y * 200
            angleLimit == SinSq200(o.skipAngleThreshold) * speedSq
            speedSide == speedSq * 100
            speedLimit == o.minSkipVelocity * o.minSkipVelocity * o.mass
            skip == /\ angleSide < angleLimit
                    /\ speedSide > speedLimit
                    /\ pre.skipCount < o.skipsBeforeSink
        IN  (prevPosition.y >= 0 /\ pre.position.y < 0) =>
                /\ skip => /\ ~r.hasSunk
                           /\ r.skipCount = pre.skipCount + 1
                           /\ last.obs[1].skipped
                /\ ~skip => /\ r.hasSunk
                            /\ r.skipCount = pre.skipCount
                            /\ ~last.obs[1].skipped
                /\ angleSide = angleLimit => r.hasSunk
                /\ speedSide = speedLimit => r.hasSunk
                /\ pre.skipCount = o.skipsBeforeSink => r.hasSunk

\* a Rock crossing at exactly 45 degrees under a threshold of 45, fast
\* enough and with skips left, has sunk
C8_Witness ==
    /\ last.op = "checkWaterCollision"
    /\ last.obs[1].crossed
    /\ last.args[1].velocity = Vec(1000, -1000, 0)
    /\ last.args[1].options.skipAngleThreshold = 45
    /\ last.args[1].skipCount < last.args[1].options.skipsBeforeSink
    /\ rocks[1].hasSunk

\* C9: a skip adds 1 to skipCount, sets the vertical velocity to
\* -vy * elasticity * (1 - skipCount'/skipsBeforeSink) with the new
\* skipCount', multiplies vx and vz by 0.95 and leaves the Rock flying; from
\* skipCount = 0 with skipsBeforeSink = 5, skipCount' = 1 and
\* vy' = -vy * elasticity * 4/5.  Velocities are whole cm/s, rounded to the
\* nearest.
C9_SkipResolution ==
    (last.op = "checkWaterCollision" /\ last.obs[1].skipped) =>
        LET pre == last.args[1]
            r == rocks[1]
            v == pre.velocity
            e == pre.options.elasticity
            sbs == pre.options.skipsBeforeSink
            n == pre.skipCount + 1
        IN  /\ r.skipCount = n
            /\ 2 * Abs(100 * sbs * r.velocity.y + v.y * e * (sbs - n)) <= 100 * sbs
            /\ 2 * Abs(100 * r.velocity.x - 95 * v.x) <= 100
            /\ 2 * Abs(100 * r.velocity.z - 95 * v.z) <= 100
            /\ ~r.hasSunk
            /\ r.isActive
            /\ (pre.skipCount = 0 /\ sbs = 5) =>
                  /\ r.skipCount = 1
                  /\ 2 * Abs(500 * r.velocity.y + 4 * v.y * e) <= 500

\* the example: skipCount 0, skipsBeforeSink 5, elasticity 0.5 and
\* v = (10, -10, 0) m/s give skipCount 1 and v = (9.5, 4, 0) m/s
C9_Witness ==
    /\ last.op = "checkWaterCollision"
    /\ last.obs[1].skipped
    /\ last.args[1].skipCount = 0
    /\ last.args[1].options.skipsBeforeSink = 5
    /\ last.args[1].options.elasticity = 50
    /\ last.args[1].velocity = Vec(1000, -1000, 0)
    /\ rocks[1].skipCount = 1
    /\ rocks[1].velocity = Vec(950, 400, 0)

\* C10: a call of Rock.update appends no entry or one entry to the
\* disturbance queue: one exactly when it detects a crossing and the
\* controller holds a water object, on the skip path and on the sink path
\* alike; none for a Rock that was inactive or had sunk, which detects no
\* crossing.
C10_OneSplashPerUpdate ==
    (last.op = "animate") =>
        \A k \in 1..Len(last.obs) :
            LET o == last.obs[k]
            IN  /\ o.enqueued \in {0, 1}
                /\ (o.enqueued = 1) <=> (o.crossed /\ hasWaterRef)
                /\ (~o.wasActive \/ o.wasSunk) => (~o.crossed /\ o.enqueued = 0)

\* an update has resolved a crossing as a skip and enqueued its splash
C10_Witness ==
    /\ last.op = "animate"
    /\ \E k \in 1..Len(last.obs) :
          /\ last.obs[k].skipped
          /\ last.obs[k].enqueued = 1

\* C11: a frame updates the rocks before it advances the field, once: the
\* first disturbance a collision enqueues in a frame that began with an
\* empty queue is in the field that this frame's simulate wrote.
C11_CollisionReachesSameFrame ==
    [][ ( /\ last'.op = "animate"
          /\ Len(water.disturbanceQueue) = 0
          /\ \E k \in 1..Len(last'.obs) : last'.obs[k].enqueued > 0 )
        => water.nextId \in Range(water'.texture[water'.renderTarget1]) ]_vars

\* C12: after a simulate call the height field the consumers read is the
\* buffer this call wrote (renderTarget2 at the time of the call): the water
\* material's uHeightMap, and in a frame the caustics pass's uHeightMap too.
C12_ConsumersReadWrittenBuffer ==
    [][ ( \/ last'.op = "animate"
          \/ (last'.op = "simulate" /\ last'.args[1]) )
        => /\ water'.uHeightMap = water.renderTarget2
           /\ (last'.op = "animate") => (water'.causticsHeightMap = water.renderTarget2) ]_vars

\* C13: a rock of activeRocks that has completed (isActive false after
\* checkBoundaries) is moved out of activeRocks by a later update.
C13_CompletedReturnsToPool ==
    \A i \in 1..(RockPoolSize + MaxExtraRocks) :
        (i \in Range(activeRocks) /\ ~rocks[i].isActive) ~> (i \notin Range(activeRocks))

\* C14: a crossing at the collision point (x, y, z), resolved as a skip or
\* as a sink, enqueues its disturbance at uvX = x / width + 0.5 and
\* uvY = -z / height + 0.5, each clamped to [0, 1]; a point within the plane
\* extents keeps its uv.  (23, 0, -20) on the 200 x 1000 plane is
\* (0.615, 0.52); (110, 0, -520) is clamped to (1, 1).
C14_CollisionUv ==
    (last.op = "checkWaterCollision" /\ last.obs[1].crossed /\ hasWaterRef) =>
        LET cp == rocks[1].lastCollisionPoint
            size == rocks[1].options.waterPlaneSize
            e == water.disturbanceQueue[Len(water.disturbanceQueue)]
            inside == /\ 2 * cp.x >= -size.width /\ 2 * cp.x <= size.width
                      /\ 2 * cp.z >= -size.height /\ 2 * cp.z <= size.height
        IN  /\ Len(water.disturbanceQueue) = 1
            /\ e.raw[1] * size.width = (1000 * cp.x) + (500 * size.width)
            /\ e.raw[2] * size.height = (-1000 * cp.z) + (500 * size.height)
            /\ e.position = <<Max(0, Min(1000, e.raw[1])), Max(0, Min(1000, e.raw[2]))>>
            /\ inside => e.position = e.raw
            /\ (cp.x = 23 /\ cp.z = -20) => e.position = <<615, 520>>
            /\ (cp.x = 110 /\ cp.z = -520) => e.position = <<1000, 1000>>

\* a rock that crossed at (23, 0, -20) has sunk and enqueued its splash
C14_Witness ==
    /\ last.op = "checkWaterCollision"
    /\ last.obs[1].crossed
    /\ ~last.obs[1].skipped
    /\ Len(water.disturbanceQueue) = 1
    /\ water.disturbanceQueue[1].position = <<615, 520>>

\* C15: a field that is zero in height and velocity in every cell is still
\* zero after a simulate step that finds the queue empty, whatever the
\* deltaTime, the viscosity and the aspect ratio; so a Water that never got
\* a disturbance has both buffers at rest after any number of steps.
C15_RestStateFixedPoint ==
    /\ [][ ( /\ last'.op = "simulate"
             /\ Len(water.disturbanceQueue) = 0
             /\ water.texture[water.renderTarget1] = RestField )
           => water'.texture[water'.renderTarget1] = RestField ]_vars
    /\ [](water.nextId = 1 => \A b \in Buffers : water.texture[b] = RestField)

\* three steps, time passing, on a viscous field that never got a disturbance
C15_Witness ==
    /\ last.op = "simulate"
    /\ last.obs[1] >= 3
    /\ water.uDelta > 0
    /\ water.uViscosity > 0
    /\ water.nextId = 1
    /\ water.texture[water.renderTarget1] = RestField

\* C16: a step with viscosity > 0 that applies no disturbance does not
\* increase the sum over the cells of height^2.
C16_EnergyNonIncrease ==
    [][ ( /\ last'.op = "simulate"
          /\ water.uViscosity > 0
          /\ Len(water.disturbanceQueue) = 0 )
        => FieldEnergy(water'.texture[water'.renderTarget1])
              <= FieldEnergy(water.texture[water.renderTarget1]) ]_vars

\* C17: a crossing resolved with no water given (water undefined) fails
\* fast: neither the skip nor the sink is completed, the rock is as it was
\* at the crossing test.
C17_FailsFastWithoutWater ==
    ( /\ last.op = "checkWaterCollision"
      /\ last.obs[1].crossed
      /\ ~hasWaterRef )
    => /\ rocks[1].skipCount = last.args[1].skipCount
       /\ rocks[1].hasSunk = last.args[1].hasSunk
       /\ rocks[1].velocity = last.args[1].velocity

\* C18: updateAllRocksOptions changes nothing but option values: every
\* rock keeps its position, velocity, angular velocity, rotation, skipCount,
\* isActive and hasSunk, rockPool and activeRocks keep their members, the
\* water (field, uniforms, queue) is as before; the pooled and the active
\* rocks have the options of rockOptions.
C18_OptionsUpdateKeepsState ==
    [][ last'.op = "updateAllRocksOptions" =>
            /\ water' = water
            /\ rockPool' = rockPool
            /\ activeRocks' = activeRocks
            /\ Len(rocks') = Len(rocks)
            /\ \A i \in 1..Len(rocks) :
                  /\ [rocks'[i] EXCEPT !.options = rocks[i].options] = rocks[i]
                  /\ i \in Range(rockPool) \cup Range(activeRocks) =>
                        /\ rocks'[i].options.skipsBeforeSink = rockOptions'.skipsBeforeSink
                        /\ rocks'[i].options.elasticity = rockOptions'.elasticity ]_vars

\* the slider was moved while a rock was in flight above the water
C18_Witness ==
    /\ last.op = "updateAllRocksOptions"
    /\ \E i \in Range(activeRocks) :
          /\ rocks[i].isActive
          /\ ~rocks[i].hasSunk
          /\ rocks[i].position.y > 0
          /\ rocks[i].velocity # Zero3
          /\ rocks[i].options.skipsBeforeSink = 1

\* C19: a simulate call reads one render target (tPrev) and writes the
\* other; the call swaps the two, so the next call reads the buffer this
\* call wrote; the two targets are the same two objects throughout.
C19_PingPong ==
    /\ [](/\ water.renderTarget1 # water.renderTarget2
          /\ {water.renderTarget1, water.renderTarget2} = Buffers)
    /\ [][ (last'.op = "simulate" /\ last'.args[1]) =>
              /\ water'.tPrev = water.renderTarget1
              /\ water'.tPrev # water.renderTarget2
              /\ \A b \in Buffers \ {water.renderTarget2} :
                    water'.texture[b] = water.texture[b]
              /\ water'.renderTarget1 = water.renderTarget2
              /\ water'.renderTarget2 = water.renderTarget1 ]_vars
    /\ [][ (last.op = "simulate" /\ last.args[1] /\ last'.op = "simulate" /\ last'.args[1]) =>
              /\ water'.tPrev = water.renderTarget1
              /\ water'.tPrev # water.tPrev ]_vars

\* the second of two rendered steps in a row read the buffer the first wrote
\* and applied a disturbance to it
C19_Witness ==
    /\ last.op = "simulate"
    /\ last.args[1]
    /\ water.tPrev = "B"
    /\ water.renderTarget1 = "A"
    /\ water.texture["A"] # << >>

\* the texel of the field under the world position p
CellUnder(p, size) ==
    << Max(1, Min(FieldSize, (ClampUv(RDiv(1000 * p.x, size.width) + 500) * FieldSize) \div 1000 + 1)),
       Max(1, Min(FieldSize, (ClampUv(RDiv(-1000 * p.z, size.height) + 500) * FieldSize) \div 1000 + 1)) >>

\* the height of the field at the XZ of p, cm
HeightSample(field, p, size) == RDiv(field[CellUnder(p, size)].h, 100)

-----------------------------------------------------------------------------
(* Rock.update alone, on a launched rock in any state of flight or sinking *)

\* the timeout of checkBoundaries, ms
MaxSimulationTime == 3000

\* ms the wall clock advances between two updates of the rock
UpdateClockStep == 1600

\* positions of an active rock, cm: under the surface on its way down (the
\* floor is at -50 and a rock below -40 is deactivated), in the air, at the
\* edge of the plane
UpdatePositions ==
    { Vec(0, -38, 0), Vec(0, -30, 0), Vec(0, -5, 0), Vec(0, 3, -20), Vec(0, 40, 0),
      Vec(98, 3, 0) }

\* velocities, cm/s
UpdateVelocities ==
    { Vec(0, -20, 0), Vec(30, -370, 0), Vec(100, -700, 0), Vec(300, -60, 0),
      Vec(3000, -600, 0) }

\* frame times of 1/30 s and 1/12 s
UpdateDeltaTimes == {2, 5}

\* a Rock constructed, launched at time 0 and now somewhere on its way
InitUpdate ==
    /\ \E position \in UpdatePositions, velocity \in UpdateVelocities, sunk \in BOOLEAN :
            /\ sunk => position.y <= 0
            /\ rocks = << [SetVelocity(NewRock(MainOptions, PlaneSize), velocity, 0)
                              EXCEPT !.position = position, !.hasSunk = sunk] >>
    /\ water = WaterInit
    /\ rockPool = << >>
    /\ activeRocks = <<1>>
    /\ rockOptions = RockOptions(MainOptions)
    /\ hasWaterRef = TRUE
    /\ now = 0
    /\ last = NoOp("init")

\* rock.update(deltaTime, 0, water); args keeps the rock as it was at the
\* call, and deltaTime
UpdateCall ==
    \E deltaTime \in UpdateDeltaTimes, spin \in Spins :
        \E c \in {RockUpdate(rocks[1], deltaTime, 0, hasWaterRef, water, now, spin)} :
            /\ c.water.nextId <= MaxDisturbances + 1
            /\ rocks' = <<c.rock>>
            /\ water' = c.water
            /\ last' = [ op |-> "update",
                         rock |-> 1,
                         obs |-> <<[crossed |-> c.crossed, skipped |-> c.skipped]>>,
                         args |-> <<rocks[1], deltaTime>> ]
            /\ UNCHANGED <<rockPool, activeRocks, rockOptions, hasWaterRef, now>>

\* Date.now() moves on between two updates
Elapse ==
    /\ now <= MaxSimulationTime
    /\ now' = now + UpdateClockStep
    /\ last' = NoOp("clock")
    /\ UNCHANGED <<water, rocks, rockPool, activeRocks, rockOptions, hasWaterRef>>

NextUpdate == UpdateCall \/ Elapse

SpecUpdate == InitUpdate /\ [][NextUpdate]_vars

\* the controller's update calls rock.update on every animation frame
\* (main.js line 369, part_010 line 420) and Date.now() keeps growing
SpecUpdateFair == SpecUpdate /\ WF_vars(UpdateCall) /\ WF_vars(Elapse)

-----------------------------------------------------------------------------
(* Properties of Rock.update                                               *)

\* the rock as the update of the step just taken found it, moved by its
\* forces over the clamped deltaTime and not yet clamped to the floor
BeforeClamping == Move(ApplyForces(last'.args[1], Min(last'.args[2], 2)), Min(last'.args[2], 2))

InsideExtents(r) ==
    /\ 2 * r.position.x >= -r.options.waterPlaneSize.width
    /\ 2 * r.position.x <= r.options.waterPlaneSize.width
    /\ 2 * r.position.z >= -r.options.waterPlaneSize.height
    /\ 2 * r.position.z <= r.options.waterPlaneSize.height

\* C22: an update deactivates an active rock only if the rock is then
\* outside the plane extents, or Sunk and below the floor depth, or launched
\* more than 3000 ms ago; a rock that is inside the extents, at or above the
\* floor depth and within the timeout stays active
C22_DeactivatedOnlyOutside ==
    [][ (last'.op = "update" /\ last'.args[1].isActive) =>
            LET r == rocks'[1]
            IN  /\ ~r.isActive =>
                    \/ ~InsideExtents(r)
                    \/ r.hasSunk /\ r.position.y < r.options.floorDepth
                    \/ now - r.startTime > MaxSimulationTime
                /\ (/\ InsideExtents(r)
                    /\ r.position.y >= r.options.floorDepth
                    /\ now - r.startTime <= MaxSimulationTime) => r.isActive ]_vars

\* the amount argument of water.addDisturbance at lines 389 and 419:
\* uDisturbanceAmount.value * disturbanceIntensity, for the rock at impact
ImpactAmount(r, w) == RDiv(w.uDisturbanceAmount * DisturbanceIntensity(r), 1000)

-----------------------------------------------------------------------------
(* The disturbance pass of the shader under the "disturbance amount"       *)
(* slider (src/src/ui.js, lines 18-20)                                     *)

\* simulate() calls in one behaviour
MaxStrengthSteps == 3

\* uDisturbanceAmount, 1/1000: as constructed (1) and as the slider sets it
\* (0.01 to 0.6)
DisturbanceAmounts == {1000, 500}

\* uv of disturbances: at the centre of a texel, 0.002 beside it (half the
\* radius), at the centre of the corner texel
StrengthUvs == {<<500, 500>>, <<502, 500>>, <<167, 167>>}

\* amounts: that of a click (0.2) and that of a rock's impact (1.8803)
StrengthAmounts == {2000, 18803}

\* new Water(options) with both render targets at rest
InitStrength ==
    /\ water = [WaterInit EXCEPT !.texture = [b \in Buffers |-> RestField]]
    /\ rocks = << >>
    /\ rockPool = << >>
    /\ activeRocks = << >>
    /\ rockOptions = RockOptions(MainOptions)
    /\ hasWaterRef = TRUE
    /\ now = 0
    /\ last = [NoOp("init") EXCEPT !.obs = <<0>>]

\* the slider writes uniforms.uDisturbanceAmount.value
SetDisturbanceAmount ==
    \E value \in DisturbanceAmounts :
        /\ water' = [water EXCEPT !.uDisturbanceAmount = value]
        /\ last' = [NoOp("uDisturbanceAmount") EXCEPT !.args = <<value>>, !.obs = last.obs]
        /\ UNCHANGED <<rocks, rockPool, activeRocks, rockOptions, hasWaterRef, now>>

\* water.addDisturbance(uv, amount)
DisturbStrength ==
    \E uv \in StrengthUvs, amount \in StrengthAmounts :
        /\ water.nextId <= MaxDisturbances
        /\ Len(water.disturbanceQueue) = 0
        /\ water' = AddDisturbance(water, uv, amount)
        /\ last' = [NoOp("addDisturbance") EXCEPT !.args = <<uv, amount>>, !.obs = last.obs]
        /\ UNCHANGED <<rocks, rockPool, activeRocks, rockOptions, hasWaterRef, now>>

\* water.simulate(renderer, deltaTime); obs counts the calls, args keeps
\* what smoothstep gave in the pass
SimulateStrength ==
    \E deltaTime \in {1}, outcome \in SmoothstepOutcomes :
        /\ last.obs[1] < MaxStrengthSteps
        /\ water' = SimulateCells(water, TRUE, deltaTime, outcome)
        /\ last' = [NoOp("simulate") EXCEPT !.args = <<outcome, deltaTime>>,
                                            !.obs = <<last.obs[1] + 1>>]
        /\ UNCHANGED <<rocks, rockPool, activeRocks, rockOptions, hasWaterRef, now>>

NextStrength == SetDisturbanceAmount \/ DisturbStrength \/ SimulateStrength

SpecStrength == InitStrength /\ [][NextStrength]_vars

\* distance(vUv, uv) for the texel c, 1/1000
CellDistance(c, uv) ==
    ISqrt((CellUv(c[1]) - uv[1]) * (CellUv(c[1]) - uv[1])
        + (CellUv(c[2]) - uv[2]) * (CellUv(c[2]) - uv[2]))

\* the height the step just taken added to the texel c on top of the wave
\* equation's result
HeightAdded(c) ==
    water'.texture[water.renderTarget2][c].h
        - Fragment(water.texture[water.renderTarget1], c[1], c[2],
                   [water' EXCEPT !.uApplyDisturbance = FALSE], last'.args[1]).h

\* C24, as stated: the step that applies the queue entry {uv, amount} adds
\* smoothstep(radius, 0, d) * amount to the height of the cell at distance d
\* from uv, whatever uDisturbanceAmount is; cells with d >= radius get
\* nothing
C24_AddsEntryAmount ==
    [][ (last'.op = "simulate" /\ Len(water.disturbanceQueue) > 0) =>
            \A c \in Cells :
                LET e == Head(water.disturbanceQueue)
                    d == CellDistance(c, e.position)
                IN  /\ HeightAdded(c)
                          = RDiv(Smoothstep(last'.args[1], DisturbanceRadius, d) * e.amount, 1000)
                    /\ d >= DisturbanceRadius => HeightAdded(c) = 0 ]_vars

\* C24, amended: the step adds smoothstep(radius, 0, d) * uDisturbanceAmount
\* * amount, with uDisturbanceAmount as it is at the time of the step; cells
\* with d >= radius get nothing.  With the usual smoothstep, an entry of
\* amount 0.2 under uDisturbanceAmount 0.5 adds 0.1 at its own texel and 0.05
\* to a texel 0.002 away.
C24_AddsScaledAmount ==
    [][ (last'.op = "simulate" /\ Len(water.disturbanceQueue) > 0) =>
            \A c \in Cells :
                LET e == Head(water.disturbanceQueue)
                    d == CellDistance(c, e.position)
                    smooth == Smoothstep(last'.args[1], DisturbanceRadius, d)
                IN  /\ HeightAdded(c)
                          = RDiv(RDiv(smooth * water.uDisturbanceAmount, 1000) * e.amount, 1000)
                    /\ d >= DisturbanceRadius => HeightAdded(c) = 0
                    /\ (/\ last'.args[1] = "hermite"
                        /\ e.amount = 2000
                        /\ water.uDisturbanceAmount = 500) =>
                            /\ d = 0 => HeightAdded(c) = 1000
                            /\ d = 2 => HeightAdded(c) = 500 ]_vars

\* a step has applied an entry of amount 0.2 under uDisturbanceAmount 0.5
\* at 0.002 from the centre texel, which got 0.05
C24_Witness ==
    /\ last.op = "simulate"
    /\ last.args[1] = "hermite"
    /\ water.uDisturbanceAmount = 500
    /\ water.uApplyDisturbance
    /\ water.uDisturbancePos = <<502, 500>>
    /\ water.uDisturbanceIntensity = 2000
    /\ water.texture[water.renderTarget1][<<2, 2>>].h = 500

\* the update of the step just taken was one Euler step over the clamped
\* deltaTime with one test for a surface crossing: the crossing is that of
\* the whole step's segment, and the rock is where the whole step put it
\* (a sink alone moves it, to the collision point) with the whole step's
\* velocity (a crossing alone changes it)
SingleEulerStep ==
    /\ last'.obs[1].crossed <=> Crossed(last'.args[1].position, BeforeClamping.position, 0)
    /\ (~last'.obs[1].crossed \/ last'.obs[1].skipped) =>
            rocks'[1].position = BeforeClamping.position
    /\ ~last'.obs[1].crossed => rocks'[1].velocity = BeforeClamping.velocity

\* C25, as stated: the update of a Flying rock at high speed (10 m/s, the
\* throw velocity, or more) integrates in at least 2 sub-steps with a
\* crossing test in each, and not in a single Euler step over the whole
\* clamped deltaTime
C25_SubSteppedAtHighSpeed ==
    [][ (/\ last'.op = "update"
         /\ last'.args[1].isActive
         /\ ~last'.args[1].hasSunk
         /\ LengthSq(last'.args[1].velocity) >= 1000 * 1000) => ~SingleEulerStep ]_vars

\* C25, amended: whatever its speed, the update of a Flying rock is a single
\* Euler step over fixedDeltaTime = min(deltaTime, 1/30) with one crossing
\* test; a rock at (0, 0.4, 0) with velocity (30, -6, 0) m/s is moved to
\* (0.8, 0.23, 0) with velocity (23.87, -5.04, 0)
C25_SingleEulerStep ==
    [][ (/\ last'.op = "update"
         /\ last'.args[1].isActive
         /\ ~last'.args[1].hasSunk) =>
            /\ SingleEulerStep
            /\ (/\ last'.args[1].position = Vec(0, 40, 0)
                /\ last'.args[1].velocity = Vec(3000, -600, 0)) =>
                    /\ rocks'[1].position = Vec(80, 23, 0)
                    /\ rocks'[1].velocity = Vec(2387, -504, 0) ]_vars

\* a Flying rock at (0, 0.4, 0) with velocity (30, -6, 0) m/s has been
\* updated once
C25_Witness ==
    /\ last.op = "update"
    /\ last.args[1].isActive
    /\ ~last.args[1].hasSunk
    /\ last.args[1].position = Vec(0, 40, 0)
    /\ last.args[1].velocity = Vec(3000, -600, 0)
    /\ rocks[1].position = Vec(80, 23, 0)

-----------------------------------------------------------------------------
(* Properties of the pool                                                  *)

\* C26: in every reachable state every rock in rockPool is fully reset:
\* isActive and hasSunk false, skipCount 0, position, velocity, angular
\* velocity and rotation zero, be it freshly constructed or returned by
\* returnRockToPool
C26_PooledRocksAreReset ==
    \A k \in 1..Len(rockPool) :
        LET r == rocks[rockPool[k]]
        IN  /\ ~r.isActive
            /\ ~r.hasSunk
            /\ r.skipCount = 0
            /\ r.position = Zero3
            /\ r.velocity = Zero3
            /\ r.angularVelocity = Zero3
            /\ r.rotation = Zero3

\* dispose has returned two launched rocks to the pool, one of them
\* constructed by getRockFromPool when the pool was empty
C26_Witness ==
    /\ last.op = "dispose"
    /\ Len(rockPool) = RockPoolSize + 1
    /\ activeRocks = << >>

\* C27: while update keeps being called and the wall clock advances, a
\* launched rock eventually becomes inactive; an update that runs more than
\* 3000 ms after the launch deactivates it whatever its position, velocity
\* and Sunk/Flying state; and an update of an inactive rock changes neither
\* the rock nor the water, so the rock stays inactive
C27_EventuallyInactive ==
    /\ rocks[1].isActive ~> ~rocks[1].isActive
    /\ [][ (/\ last'.op = "update"
            /\ now - last'.args[1].startTime > MaxSimulationTime) =>
                ~rocks'[1].isActive ]_vars
    /\ [][ ~rocks[1].isActive => (rocks' = rocks /\ water' = water) ]_vars

\* an update more than 3000 ms after the launch has deactivated a rock that
\* is inside the plane extents and more than 0.1 above the floor
C27_Witness ==
    /\ last.op = "update"
    /\ last.args[1].isActive
    /\ now - last.args[1].startTime > MaxSimulationTime
    /\ ~rocks[1].isActive
    /\ InsideExtents(rocks[1])
    /\ rocks[1].position.y >= rocks[1].options.floorDepth + 10

-----------------------------------------------------------------------------
(* Properties of the controller's handlers                                 *)

-----------------------------------------------------------------------------
(* The controller over the earlier Rock (src/unnamed/part_005), whose      *)
(* isFinished() reports an inactive or sunk rock: update() returns rocks   *)
(* to the pool while it iterates                                           *)

\* Rock.isFinished() of the earlier revision
IsFinishedEarlier(r) == ~r.isActive \/ r.hasSunk

\* lines 420-424 of update(): a finished rock goes back to the pool
ReturnIfFinishedEarlier(c, id, opts) ==
    IF IsFinishedEarlier(c.rocks[id]) THEN ReturnRockToPool(c, id, opts) ELSE c

\* one iteration of the loop, u being what rock.update(...) gave for rock id
IterationEarlier(st, id, u, opts) ==
    [ ctl |-> ReturnIfFinishedEarlier([st.ctl EXCEPT !.rocks[id] = u.rock], id, opts),
      water |-> u.water,
      obs |-> Append(st.obs, Observation(id, st.ctl.rocks[id], u,
                                         Len(st.water.disturbanceQueue))) ]

\* lines 417-418: rock.update(deltaTime, 0, this.water) on the rock id
UpdateRockEarlier(st, id, deltaTime, hasWater, opts, nowMs, spin) ==
    The({ IterationEarlier(st, id, u, opts) :
            u \in { RockUpdate(st.ctl.rocks[id], deltaTime, 0, hasWater, st.water,
                               nowMs, spin) } })

\* a loop that runs forwards, for (i = 0; i < activeRocks.length; i++): the
\* index of an iteration is the number of iterations before it
RECURSIVE UpdateLoopForward(_, _, _, _, _, _, _)
UpdateLoopForward(st, i, deltaTime, hasWater, opts, nowMs, spins) ==
    IF Len(st.obs) + 1 > Len(st.ctl.activeRocks) THEN st
    ELSE The({ UpdateLoopForward(st2, i - 1, deltaTime, hasWater, opts, nowMs, spins) :
                 st2 \in { UpdateRockEarlier(st, st.ctl.activeRocks[Len(st.obs) + 1],
                                             deltaTime, hasWater, opts, nowMs,
                                             spins[st.ctl.activeRocks[Len(st.obs) + 1]]) } })

\* the for loop of update(deltaTime), from index i (1-based) down to 1
RECURSIVE UpdateLoopEarlier(_, _, _, _, _, _, _)
UpdateLoopEarlier(st, i, deltaTime, hasWater, opts, nowMs, spins) ==
    IF i < 1 THEN st
    ELSE The({ UpdateLoopEarlier(st2, i - 1, deltaTime, hasWater, opts, nowMs, spins) :
                 st2 \in { UpdateRockEarlier(st, st.ctl.activeRocks[i], deltaTime, hasWater,
                                             opts, nowMs, spins[st.ctl.activeRocks[i]]) } })

\* update(deltaTime)
ControllerUpdateEarlier(c, w, deltaTime, hasWater, opts, nowMs, spins) ==
    UpdateLoopEarlier([ctl |-> c, water |-> w, obs |-> << >>], Len(c.activeRocks),
                      deltaTime, hasWater, opts, nowMs, spins)

\* animate(); args keeps activeRocks as the update call found it
AnimateEarlier ==
    \E deltaTime \in DeltaTimes :
        \E w1 \in {FrameWater(deltaTime)} :
            \E draw \in [Skippers(ControllerUpdateEarlier(Ctl, w1, deltaTime, hasWaterRef,
                                                          rockOptions, now, SpinsOf(<< >>)).obs)
                            -> Spins] :
                \E u \in {ControllerUpdateEarlier(Ctl, w1, deltaTime, hasWaterRef,
                                                   rockOptions, now, SpinsOf(draw))} :
                    /\ u.water.nextId <= MaxDisturbances + 1
                    /\ water' = u.water
                    /\ rocks' = u.ctl.rocks
                    /\ rockPool' = u.ctl.rockPool
                    /\ activeRocks' = u.ctl.activeRocks
                    /\ last' = [NoOp("animate") EXCEPT !.obs = u.obs, !.args = <<activeRocks>>]
                    /\ UNCHANGED <<rockOptions, hasWaterRef, now>>

NextEarlier == AnimateEarlier \/ ThrowRock \/ ClockAdvance

SpecEarlier == Init /\ [][NextEarlier]_vars

\* C29: one update call invokes Rock.update exactly once on every rock that
\* was in activeRocks at the start of the call, and on no other, also when
\* rocks are returned to the pool during the iteration
C29_EachActiveRockUpdatedOnce ==
    [][ last'.op = "animate" =>
            /\ Len(last'.obs) = Len(activeRocks)
            /\ \A k \in 1..Len(activeRocks) :
                  Cardinality({j \in 1..Len(last'.obs) : last'.obs[j].rock = activeRocks[k]}) = 1 ]_vars

\* an update call found two rocks in activeRocks, updated both and returned
\* the first of them to the pool, the second staying active
C29_Witness ==
    /\ last.op = "animate"
    /\ Len(last.args[1]) = 2
    /\ Len(last.obs) = 2
    /\ activeRocks = <<last.args[1][2]>>
    /\ rockPool = <<last.args[1][1]>>

\* C30: dispose terminates whatever the number of active rocks (each
\* returnRockToPool(activeRocks[0]) makes activeRocks one shorter), and after
\* it activeRocks is empty and every rock that was active is in rockPool
\* exactly once, reset and inactive; the rocks already pooled stay pooled
C30_DisposeReturnsAll ==
    /\ [](Len(activeRocks) > 0 =>
            Len(ReturnRockToPool(Ctl, activeRocks[1], rockOptions).activeRocks)
                = Len(activeRocks) - 1)
    /\ [][ last'.op = "dispose" =>
            /\ activeRocks' = << >>
            /\ Len(rockPool') = Len(rockPool) + Len(activeRocks)
            /\ \A id \in Range(rockPool) :
                  Cardinality({k \in 1..Len(rockPool') : rockPool'[k] = id}) = 1
            /\ \A id \in Range(activeRocks) :
                  /\ Cardinality({k \in 1..Len(rockPool') : rockPool'[k] = id}) = 1
                  /\ ~rocks'[id].isActive
                  /\ ~rocks'[id].hasSunk
                  /\ rocks'[id].velocity = Zero3
                  /\ rocks'[id].position = Zero3 ]_vars

\* dispose has found two rocks in activeRocks and returned both
C30_Witness ==
    /\ last.op = "dispose"
    /\ Len(last.args[1]) = 2
    /\ activeRocks = << >>
    /\ Range(last.args[1]) \subseteq Range(rockPool)

=============================================================================
